---- MODULE Spec2Model ----
(***************************************************************************)
(* RAG-Sai: the strategy verification harness (verify_strategies.py) and   *)
(* the active-configuration store (utils/config_manager.py).               *)
(*                                                                         *)
(* Text is a sequence of one-character strings, so that prefix tests,      *)
(* substring tests and slicing are computed as Python computes them.       *)
(***************************************************************************)
EXTENDS Integers, Sequences, FiniteSets, TLC

VARIABLES
    \* ---- verify_strategies.py ----
    pc,              \* position of the process / of the run_all coroutine
    env,             \* os.getenv: which credentials are set
    results,         \* StrategyTester.results
    db_initialized,  \* StrategyTester.db_initialized
    idx,             \* which of the ten run_test calls run_all is at
    pending,         \* what the strategy call being awaited is going to do
    invoked,         \* log: strategy calls started, in order
    outcomes,        \* log: what each completed strategy call did
    init_calls,      \* log: calls of initialize_db
    init_result,     \* log: how initialize_db ended: "none", "returned", "raised"
    close_calls,     \* log: calls of close_db
    report,          \* the totals line print_report printed
    run_all_exc,     \* what left run_all: "none" (returned) or the exception
    exit_status,     \* process exit status (-1 while the process runs)
    \* ---- utils/config_manager.py ----
    file,            \* active_config.json on disk
    DEFAULT_CONFIG,  \* the module-level dict object
    held,            \* the mapping the caller holds from its last load
    last_call,       \* the config-store call that ran last
    last_saved       \* argument of the last completed save still on disk

harness_vars == <<pc, env, results, db_initialized, idx, pending, invoked,
                  outcomes, init_calls, init_result, close_calls, report,
                  run_all_exc, exit_status>>
config_vars == <<file, DEFAULT_CONFIG, held, last_call, last_saved>>
vars == <<harness_vars, config_vars>>

Min(a, b) == IF a < b THEN a ELSE b

(***************************************************************************)
(* Text helpers                                                            *)
(***************************************************************************)
\* str.startswith
StartsWith(s, p) == Len(s) >= Len(p) /\ SubSeq(s, 1, Len(p)) = p

\* p in s
Contains(s, p) ==
    \E k \in 0..(Len(s) - Len(p)) : SubSeq(s, k + 1, k + Len(p)) = p

\* s[:n]
Slice(s, n) == SubSeq(s, 1, Min(n, Len(s)))

\* length of the preview slice taken in run_test
PreviewLen == 200

ErrorPrefix == <<"E","r","r","o","r">>
SearchErrorPrefix == <<"S","e","a","r","c","h"," ","e","r","r","o","r">>
EncounteredAnError ==
    <<"e","n","c","o","u","n","t","e","r","e","d"," ","a","n"," ","e","r","r","o","r">>
Ellipsis == <<".",".",".">>
UnexpectedReturnType ==
    <<"U","n","e","x","p","e","c","t","e","d"," ","r","e","t","u","r","n"," ",
      "t","y","p","e",":"," ">>

\* a returned value: a str carries its text, any other value only its type
StrValue(t) == [type |-> "str", text |-> t]
OtherValue(tn) == [type |-> tn]

TypeChars(tn) ==
    CASE tn = "NoneType" -> <<"N","o","n","e","T","y","p","e">>
      [] tn = "int"      -> <<"i","n","t">>
      [] tn = "list"     -> <<"l","i","s","t">>

\* str(type(result)): <class 'int'>
TypeRepr(tn) == <<"<","c","l","a","s","s"," ","'">> \o TypeChars(tn) \o <<"'",">">>

(***************************************************************************)
(* TestResult and the fixed list of run_test calls in run_all              *)
(***************************************************************************)
TestResult(name, status, output, error) ==
    [name |-> name, status |-> status, output |-> output, error |-> error]

Strategies == <<
    [name |-> "Baseline: search_knowledge_base",
     func |-> "search_knowledge_base", arg |-> "test_query"],
    [name |-> "Strategy: search_with_multi_query",
     func |-> "search_with_multi_query", arg |-> "test_query"],
    [name |-> "Strategy: search_with_reranking",
     func |-> "search_with_reranking", arg |-> "test_query"],
    [name |-> "Strategy: search_with_self_reflection",
     func |-> "search_with_self_reflection", arg |-> "test_query"],
    [name |-> "Strategy: search_with_hybrid_retrieval",
     func |-> "search_with_hybrid_retrieval", arg |-> "test_query"],
    [name |-> "Edge Case: retrieve_full_document (missing)",
     func |-> "retrieve_full_document", arg |-> "NON_EXISTENT_DOCUMENT_X123"],
    [name |-> "Strategy: answer_with_fact_verification",
     func |-> "answer_with_fact_verification", arg |-> "test_query"],
    [name |-> "Strategy: answer_with_multi_hop",
     func |-> "answer_with_multi_hop", arg |-> "test_query"],
    [name |-> "Strategy: answer_with_uncertainty",
     func |-> "answer_with_uncertainty", arg |-> "test_query"],
    [name |-> "Input Validation: Empty Query",
     func |-> "search_knowledge_base", arg |-> ""] >>

NumStrategies == Len(Strategies)

\* what an awaited strategy call can do, short of being cancelled
Return(v) == [kind |-> "return", value |-> v]
Raise(msg) == [kind |-> "raise", msg |-> msg]

OkText == <<"o","k">>
ErrText == <<"E","r","r","o","r",":"," ","d","b">>
BoomText == <<"b","o","o","m">>

\* the behaviours of a strategy call explored in a whole run
RunOutcomes == {Return(StrValue(OkText)), Return(StrValue(ErrText)), Raise(BoomText)}

(***************************************************************************)
(* run_test: classification of a returned value                            *)
(***************************************************************************)
\* faulty variant: the substring test is left out
Classify_NoSubstring(result) ==
    IF result.type = "str"
    THEN IF \/ StartsWith(result.text, ErrorPrefix)
            \/ StartsWith(result.text, SearchErrorPrefix)
         THEN [status |-> "FAIL", text |-> result.text]
         ELSE [status |-> "PASS", text |-> result.text]
    ELSE [status |-> "FAIL",
          text |-> UnexpectedReturnType \o TypeRepr(result.type)]

\* status and result text after the isinstance / prefix tests
Classify(result) ==
    IF result.type = "str"
    THEN IF \/ StartsWith(result.text, ErrorPrefix)
            \/ StartsWith(result.text, SearchErrorPrefix)
            \/ Contains(result.text, EncounteredAnError)
         THEN [status |-> "FAIL", text |-> result.text]
         ELSE [status |-> "PASS", text |-> result.text]
    ELSE [status |-> "FAIL",
          text |-> UnexpectedReturnType \o TypeRepr(result.type)]

\* TestResult(name, status, duration, str(result)[:200] + "...")
ReturnedResult(name, result) ==
    LET c == Classify(result)
    IN  TestResult(name, c.status, Slice(c.text, PreviewLen) \o Ellipsis, <<>>)

\* TestResult(name, "FAIL", duration, error=str(e))
RaisedResult(name, msg) == TestResult(name, "FAIL", <<>>, msg)

(***************************************************************************)
(* The harness process                                                     *)
(***************************************************************************)
NoCall == [kind |-> "none"]
NoReport == [printed |-> FALSE, total |-> 0, passed |-> 0, failed |-> 0]

HarnessInit ==
    /\ pc = "import"
    /\ env \in [DATABASE_URL : BOOLEAN, OPENAI_API_KEY : BOOLEAN]
    /\ results = <<>>
    /\ db_initialized = FALSE
    /\ idx = 1
    /\ pending = NoCall
    /\ invoked = <<>>
    /\ outcomes = <<>>
    /\ init_calls = 0
    /\ init_result = "none"
    /\ close_calls = 0
    /\ report = NoReport
    /\ run_all_exc = "none"
    /\ exit_status = -1

\* run_all ends: control is back in the __main__ block
Leave(exc) == pc' = "toplevel" /\ run_all_exc' = exc

\* module import: from rag_agent_advanced import ...; sys.exit(1) on ImportError
ImportModules ==
    /\ pc = "import"
    /\ \E ok \in BOOLEAN :
         IF ok THEN pc' = "setup" /\ exit_status' = exit_status
               ELSE pc' = "exited" /\ exit_status' = 1
    /\ UNCHANGED <<env, results, db_initialized, idx, pending, invoked, outcomes,
                   init_calls, init_result, close_calls, report, run_all_exc>>
    /\ UNCHANGED config_vars

\* faulty variant: the credentials are not checked
Setup_NoCredentialCheck ==
    /\ pc = "setup"
    /\ init_calls' = init_calls + 1
    /\ pc' = "init_await"
    /\ UNCHANGED <<env, results, db_initialized, idx, pending, invoked, outcomes,
                   init_result, close_calls, report, run_all_exc, exit_status>>
    /\ UNCHANGED config_vars

\* setup, up to the await of initialize_db()
Setup ==
    /\ pc = "setup"
    /\ IF ~env.DATABASE_URL \/ ~env.OPENAI_API_KEY
       THEN Leave("ValueError") /\ init_calls' = init_calls
       ELSE /\ init_calls' = init_calls + 1
            /\ pc' = "init_await"
            /\ run_all_exc' = run_all_exc
    /\ UNCHANGED <<env, results, db_initialized, idx, pending, invoked, outcomes,
                   init_result, close_calls, report, exit_status>>
    /\ UNCHANGED config_vars

\* initialize_db() returns: self.db_initialized = True, run_all goes on
InitializeDbReturn ==
    /\ pc = "init_await"
    /\ init_result' = "returned"
    /\ db_initialized' = TRUE
    /\ pc' = "call"
    /\ UNCHANGED <<env, results, idx, pending, invoked, outcomes, init_calls,
                   close_calls, report, run_all_exc, exit_status>>
    /\ UNCHANGED config_vars

\* initialize_db() raises: printed and re-raised
InitializeDbRaise ==
    /\ pc = "init_await"
    /\ init_result' = "raised"
    /\ Leave("Exception")
    /\ UNCHANGED <<env, results, db_initialized, idx, pending, invoked, outcomes,
                   init_calls, close_calls, report, exit_status>>
    /\ UNCHANGED config_vars

\* run_test, up to the await of func(None, *args)
StartTest ==
    /\ pc = "call"
    /\ invoked' = Append(invoked, [func |-> Strategies[idx].func,
                                   arg |-> Strategies[idx].arg])
    /\ pending' \in RunOutcomes
    /\ pc' = "await"
    /\ UNCHANGED <<env, results, db_initialized, idx, outcomes, init_calls,
                   init_result, close_calls, report, run_all_exc, exit_status>>
    /\ UNCHANGED config_vars

\* faulty variant: the result is inserted at the front
AppendResult_Prepends(r) ==
    /\ results' = <<r>> \o results
    /\ outcomes' = <<pending>> \o outcomes
    /\ pending' = NoCall
    /\ IF idx < NumStrategies
       THEN pc' = "call" /\ idx' = idx + 1
       ELSE pc' = "teardown" /\ idx' = idx

\* self.results.append(<the TestResult run_test returned>), then the next statement
AppendResult(r) ==
    /\ results' = Append(results, r)
    /\ outcomes' = Append(outcomes, pending)
    /\ pending' = NoCall
    /\ IF idx < NumStrategies
       THEN pc' = "call" /\ idx' = idx + 1
       ELSE pc' = "teardown" /\ idx' = idx

\* the awaited call returns a value: the try body of run_test
RunTestReturn ==
    /\ pc = "await"
    /\ pending.kind = "return"
    /\ AppendResult(ReturnedResult(Strategies[idx].name, pending.value))
    /\ UNCHANGED <<env, db_initialized, invoked, init_calls, init_result,
                   close_calls, report, run_all_exc, exit_status>>
    /\ UNCHANGED config_vars

\* faulty variant: no except branch, the exception leaves run_all
RunTestRaise_Propagates ==
    /\ pc = "await"
    /\ pending.kind = "raise"
    /\ Leave("Exception")
    /\ pending' = NoCall
    /\ UNCHANGED <<env, results, db_initialized, idx, invoked, outcomes, init_calls,
                   init_result, close_calls, report, exit_status>>
    /\ UNCHANGED config_vars

\* the awaited call raises an Exception: the except branch of run_test
RunTestRaise ==
    /\ pc = "await"
    /\ pending.kind = "raise"
    /\ AppendResult(RaisedResult(Strategies[idx].name, pending.msg))
    /\ UNCHANGED <<env, db_initialized, invoked, init_calls, init_result,
                   close_calls, report, run_all_exc, exit_status>>
    /\ UNCHANGED config_vars

\* Ctrl-C / cancellation while a call is awaited: a BaseException, which
\* 'except Exception' does not catch; it leaves run_test and run_all
Interrupt ==
    /\ pc \in {"init_await", "await"}
    /\ Leave("KeyboardInterrupt")
    /\ pending' = NoCall
    /\ UNCHANGED <<env, results, db_initialized, idx, invoked, outcomes,
                   init_calls, init_result, close_calls, report, exit_status>>
    /\ UNCHANGED config_vars

\* faulty variant: close_db() is called only when no test failed
Teardown_SkipsClose ==
    /\ pc = "teardown"
    /\ IF db_initialized /\ \A i \in 1..Len(results) : results[i].status = "PASS"
       THEN close_calls' = close_calls + 1
       ELSE close_calls' = close_calls
    /\ pc' = "report"
    /\ UNCHANGED <<env, results, db_initialized, idx, pending, invoked, outcomes,
                   init_calls, init_result, report, run_all_exc, exit_status>>
    /\ UNCHANGED config_vars

\* teardown: if self.db_initialized: await close_db()
Teardown ==
    /\ pc = "teardown"
    /\ IF db_initialized
       THEN /\ close_calls' = close_calls + 1
            /\ \E how \in {"return", "raise", "interrupt"} :
                 CASE how = "return"    -> pc' = "report" /\ run_all_exc' = run_all_exc
                   [] how = "raise"     -> Leave("Exception")
                   [] how = "interrupt" -> Leave("KeyboardInterrupt")
       ELSE /\ close_calls' = close_calls
            /\ pc' = "report"
            /\ run_all_exc' = run_all_exc
    /\ UNCHANGED <<env, results, db_initialized, idx, pending, invoked, outcomes,
                   init_calls, init_result, report, exit_status>>
    /\ UNCHANGED config_vars

\* the loop of print_report: one pass over the results, counting
RECURSIVE CountPassed(_)
CountPassed(rs) ==
    IF rs = <<>> THEN 0
    ELSE (IF Head(rs).status = "PASS" THEN 1 ELSE 0) + CountPassed(Tail(rs))

\* faulty variant: only FAIL is counted as a failure
RECURSIVE CountFailed_OnlyFail(_)
CountFailed_OnlyFail(rs) ==
    IF rs = <<>> THEN 0
    ELSE (IF Head(rs).status = "FAIL" THEN 1 ELSE 0) + CountFailed_OnlyFail(Tail(rs))

RECURSIVE CountFailed(_)
CountFailed(rs) ==
    IF rs = <<>> THEN 0
    ELSE (IF Head(rs).status = "PASS" THEN 0 ELSE 1) + CountFailed(Tail(rs))

\* print_report: the table, the totals, sys.exit(1) when failed > 0
PrintReport ==
    /\ pc = "report"
    /\ LET passed == CountPassed(results)
           failed == CountFailed(results)
       IN  /\ report' = [printed |-> TRUE, total |-> Len(results),
                         passed |-> passed, failed |-> failed]
           /\ IF failed > 0 THEN Leave("SystemExit") ELSE Leave("none")
    /\ UNCHANGED <<env, results, db_initialized, idx, pending, invoked, outcomes,
                   init_calls, init_result, close_calls, exit_status>>
    /\ UNCHANGED config_vars

\* __main__: try: asyncio.run(...) except KeyboardInterrupt / except Exception;
\* SystemExit passes both handlers and sets the exit status
Main ==
    /\ pc = "toplevel"
    /\ pc' = "exited"
    /\ exit_status' = IF run_all_exc = "SystemExit" THEN 1 ELSE 0
    /\ UNCHANGED <<env, results, db_initialized, idx, pending, invoked, outcomes,
                   init_calls, init_result, close_calls, report, run_all_exc>>
    /\ UNCHANGED config_vars

(***************************************************************************)
(* utils/config_manager.py                                                 *)
(***************************************************************************)
\* Python values, with their type
PyInt(n) == [t |-> "int", v |-> n]
PyStr(str) == [t |-> "str", v |-> str]
PyBool(b) == [t |-> "bool", v |-> b]

\* the dict literal bound to DEFAULT_CONFIG when the module is imported
DefaultConfigLiteral ==
    [chunk_size |-> PyInt(1000),
     chunk_overlap |-> PyInt(200),
     chunker_type |-> PyStr("semantic"),
     embedding_model |-> PyStr("text-embedding-3-small"),
     use_contextual_enrichment |-> PyBool(FALSE)]

\* the five recognized keys, in the order of the literal
ConfigKeys == <<"chunk_size", "chunk_overlap", "chunker_type", "embedding_model",
                "use_contextual_enrichment">>

\* values of valid type the caller may store under each key
KeyValues(k) ==
    CASE k = "chunk_size"                -> {PyInt(1000), PyInt(512)}
      [] k = "chunk_overlap"             -> {PyInt(200), PyInt(0)}
      [] k = "chunker_type"              -> {PyStr("semantic"), PyStr("simple")}
      [] k = "embedding_model"           -> {PyStr("text-embedding-3-small")}
      [] k = "use_contextual_enrichment" -> {PyBool(TRUE), PyBool(FALSE)}

Configs ==
    [chunk_size : KeyValues("chunk_size"),
     chunk_overlap : KeyValues("chunk_overlap"),
     chunker_type : KeyValues("chunker_type"),
     embedding_model : KeyValues("embedding_model"),
     use_contextual_enrichment : KeyValues("use_contextual_enrichment")]

\* ---- json.dump: the mapping as JSON text, a sequence of tokens ----
Quote == "\""
DigitChars == <<"0", "1", "2", "3", "4", "5", "6", "7", "8", "9">>

\* an int as decimal digits
RECURSIVE IntLit(_)
IntLit(n) ==
    IF n < 10 THEN <<DigitChars[n + 1]>>
    ELSE IntLit(n \div 10) \o <<DigitChars[(n % 10) + 1]>>

\* a str between double quotes
StrLit(str) == <<Quote, str, Quote>>

\* faulty variant: the Python spelling of a bool
BoolLit_PythonRepr(b) == IF b THEN <<"True">> ELSE <<"False">>

\* True / False as true / false
BoolLit(b) == IF b THEN <<"true">> ELSE <<"false">>

\* one value, by its Python type
ValueLit(x) ==
    CASE x.t = "bool" -> BoolLit(x.v)
      [] x.t = "int"  -> IntLit(x.v)
      [] x.t = "str"  -> StrLit(x.v)

\* "key": value
MemberLit(c, k) == StrLit(k) \o <<":">> \o ValueLit(c[k])

RECURSIVE MembersLit(_, _)
MembersLit(c, ks) ==
    IF ks = <<>> THEN <<>>
    ELSE MemberLit(c, Head(ks))
         \o (IF Tail(ks) = <<>> THEN <<>> ELSE <<",">> \o MembersLit(c, Tail(ks)))

\* json.dump(config, f, indent=2)
JsonDump(c) == <<"{">> \o MembersLit(c, ConfigKeys) \o <<"}">>

\* ---- json.load: JSON text back to a mapping ----
IsDigit(t) == \E d \in 1..10 : DigitChars[d] = t
DigitValue(t) == (CHOOSE d \in 1..10 : DigitChars[d] = t) - 1

\* the run of digits at the head of the text
RECURSIVE DigitRun(_)
DigitRun(ts) ==
    IF ts # <<>> /\ IsDigit(Head(ts)) THEN <<Head(ts)>> \o DigitRun(Tail(ts))
    ELSE <<>>

RECURSIVE DigitsToInt(_, _)
DigitsToInt(ds, acc) ==
    IF ds = <<>> THEN acc
    ELSE DigitsToInt(Tail(ds), acc * 10 + DigitValue(Head(ds)))

Drop(ts, n) == SubSeq(ts, n + 1, Len(ts))

ParseError == [ok |-> FALSE, value |-> PyInt(0), rest |-> <<>>]

\* one JSON value at the head of the text: [ok, value, rest]
ParseValue(ts) ==
    IF ts = <<>> THEN ParseError
    ELSE IF Head(ts) = Quote
    THEN IF Len(ts) >= 3 /\ ts[3] = Quote
         THEN [ok |-> TRUE, value |-> PyStr(ts[2]), rest |-> Drop(ts, 3)]
         ELSE ParseError
    ELSE IF Head(ts) = "true" THEN [ok |-> TRUE, value |-> PyBool(TRUE), rest |-> Tail(ts)]
    ELSE IF Head(ts) = "false" THEN [ok |-> TRUE, value |-> PyBool(FALSE), rest |-> Tail(ts)]
    ELSE IF IsDigit(Head(ts))
    THEN LET ds == DigitRun(ts)
         IN  [ok |-> TRUE, value |-> PyInt(DigitsToInt(ds, 0)), rest |-> Drop(ts, Len(ds))]
    ELSE ParseError

\* the members of an object up to its closing brace: [ok, value]
RECURSIVE ParseMembers(_, _)
ParseMembers(ts, acc) ==
    IF Len(ts) < 4 \/ ts[1] # Quote \/ ts[3] # Quote \/ ts[4] # ":"
    THEN [ok |-> FALSE, value |-> acc]
    ELSE LET key == ts[2]
             v == ParseValue(Drop(ts, 4))
         IN  IF ~v.ok THEN [ok |-> FALSE, value |-> acc]
             ELSE LET m == (key :> v.value) @@ acc
                  IN  IF v.rest = <<"}">> THEN [ok |-> TRUE, value |-> m]
                      ELSE IF v.rest # <<>> /\ Head(v.rest) = ","
                      THEN ParseMembers(Tail(v.rest), m)
                      ELSE [ok |-> FALSE, value |-> acc]

EmptyMapping == [k \in {} |-> 0]

\* json.load(f): [ok, value]; ok = FALSE stands for the JSONDecodeError
JsonLoad(ts) ==
    IF ts = <<>> \/ Head(ts) # "{" THEN [ok |-> FALSE, value |-> EmptyMapping]
    ELSE IF Tail(ts) = <<"}">> THEN [ok |-> TRUE, value |-> EmptyMapping]
    ELSE ParseMembers(Tail(ts), EmptyMapping)

\* ---- the file, the module object and the caller ----
AbsentFile == [kind |-> "absent", text |-> <<>>]
\* a file that exists and that this process may neither read nor write
LockedFile == [kind |-> "locked", text |-> <<>>]
TextFile(ts) == [kind |-> "text", text |-> ts]

\* contents that are no JSON document: empty, cut short, not JSON at all
BrokenTexts == {<<>>, <<"{">>, <<"{", Quote, "chunk_size", Quote, ":">>, <<"chunk_size">>}

NoMapping == [ref |-> "none", obj |-> DefaultConfigLiteral]
\* a reference to the module's DEFAULT_CONFIG object itself
DefaultRef == [ref |-> "DEFAULT_CONFIG", obj |-> DefaultConfigLiteral]
\* a reference to a dict of the caller's own
OwnRef(m) == [ref |-> "own", obj |-> m]

\* the mapping a reference denotes now
Deref(h) == IF h.ref = "DEFAULT_CONFIG" THEN DEFAULT_CONFIG ELSE h.obj

NotSaved == [valid |-> FALSE, config |-> DefaultConfigLiteral]

ConfigInit ==
    /\ file = AbsentFile
    /\ DEFAULT_CONFIG = DefaultConfigLiteral
    /\ held = NoMapping
    /\ last_call = "none"
    /\ last_saved = NotSaved

\* what load_active_config returns
LoadResult ==
    IF file.kind = "absent" THEN DefaultRef
    ELSE IF file.kind = "locked" THEN DefaultRef
    ELSE LET r == JsonLoad(file.text)
         IN  IF r.ok THEN OwnRef(r.value) ELSE DefaultRef

\* config = load_active_config()
Load ==
    /\ held' = LoadResult
    /\ last_call' = "load"
    /\ UNCHANGED <<file, DEFAULT_CONFIG, last_saved>>
    /\ UNCHANGED harness_vars

\* what save_active_config(c) leaves on disk
SavedFile(c) == TextFile(JsonDump(c))

\* save_active_config(c): open(CONFIG_FILE, 'w') raises on a file that
\* cannot be written, and the error propagates
Save ==
    /\ \E c \in Configs \cup (IF held.ref = "none" THEN {} ELSE {Deref(held)}) :
         IF file.kind = "locked"
         THEN /\ last_call' = "save_failed"
              /\ UNCHANGED <<file, last_saved>>
         ELSE /\ file' = SavedFile(c)
              /\ last_saved' = [valid |-> TRUE, config |-> c]
              /\ last_call' = "save"
    /\ UNCHANGED <<DEFAULT_CONFIG, held>>
    /\ UNCHANGED harness_vars

\* the caller's config[k] = v on the mapping it got from load
Update ==
    /\ held.ref # "none"
    /\ \E i \in 1..Len(ConfigKeys) : \E v \in KeyValues(ConfigKeys[i]) :
         LET k == ConfigKeys[i] IN
         IF held.ref = "DEFAULT_CONFIG"
         THEN /\ DEFAULT_CONFIG' = [DEFAULT_CONFIG EXCEPT ![k] = v]
              /\ held' = held
         ELSE /\ held' = OwnRef([held.obj EXCEPT ![k] = v])
              /\ DEFAULT_CONFIG' = DEFAULT_CONFIG
    /\ last_call' = "update"
    /\ UNCHANGED <<file, last_saved>>
    /\ UNCHANGED harness_vars

\* the operator removes, protects or hand-edits the file
ChangeFile ==
    /\ file' \in ({AbsentFile, LockedFile} \cup {TextFile(t) : t \in BrokenTexts})
    /\ file' # file
    /\ last_saved' = NotSaved
    /\ last_call' = "env"
    /\ UNCHANGED <<DEFAULT_CONFIG, held>>
    /\ UNCHANGED harness_vars

(***************************************************************************)
(* Specifications                                                          *)
(***************************************************************************)
HarnessIdle ==
    /\ pc = "idle" /\ env = [DATABASE_URL |-> TRUE, OPENAI_API_KEY |-> TRUE]
    /\ results = <<>> /\ db_initialized = FALSE /\ idx = 1 /\ pending = NoCall
    /\ invoked = <<>> /\ outcomes = <<>> /\ init_calls = 0
    /\ init_result = "none" /\ close_calls = 0 /\ report = NoReport
    /\ run_all_exc = "none" /\ exit_status = -1

\* one run of the harness process
Init == HarnessInit /\ ConfigInit

Next ==
    \/ ImportModules
    \/ Setup
    \/ InitializeDbReturn
    \/ InitializeDbRaise
    \/ StartTest
    \/ RunTestReturn
    \/ RunTestRaise
    \/ Interrupt
    \/ Teardown
    \/ PrintReport
    \/ Main

Spec == Init /\ [][Next]_vars

\* a process using the configuration store
InitConfig == HarnessIdle /\ ConfigInit

NextConfig == Load \/ Save \/ Update \/ ChangeFile

SpecConfig == InitConfig /\ [][NextConfig]_vars

\* ---- run_test on one returned or raised value ----
\* longest run of filler after the word of a returned text
MaxTail == 205
\* longest run of filler before it
MaxLead == 2

Pad(n) == [i \in 1..n |-> "x"]

Words == {<<>>, ErrorPrefix, SearchErrorPrefix, EncounteredAnError,
          <<"e","r","r","o","r">>, <<"E","r","r">>,
          <<"S","e","a","r","c","h"," ","e","r","r">>,
          <<"e","n","c","o","u","n","t","e","r","e","d"," ","a","n"," ","e","r","r","o">>,
          <<"D","o","c","u","m","e","n","t"," ","n","o","t"," ","f","o","u","n","d">>}

Texts == {Pad(a) \o w \o Pad(b) : a \in 0..MaxLead, w \in Words, b \in 0..MaxTail}

CallOutcomes ==
    {Return(StrValue(t)) : t \in Texts}
    \cup {Return(OtherValue(tn)) : tn \in {"NoneType", "int", "list"}}
    \cup {Raise(BoomText), Raise(<<>>)}

\* run_all awaiting call number k, the earlier calls having raised
InitClassify ==
    /\ ConfigInit
    /\ \E k \in {1, 6, NumStrategies} :
         /\ idx = k
         /\ results = [i \in 1..(k - 1) |->
                          RaisedResult(Strategies[i].name, BoomText)]
         /\ outcomes = [i \in 1..(k - 1) |-> Raise(BoomText)]
         /\ invoked = [i \in 1..k |-> [func |-> Strategies[i].func,
                                       arg |-> Strategies[i].arg]]
    /\ pc = "await"
    /\ pending \in CallOutcomes
    /\ env = [DATABASE_URL |-> TRUE, OPENAI_API_KEY |-> TRUE]
    /\ db_initialized = TRUE /\ init_calls = 1 /\ init_result = "returned"
    /\ close_calls = 0 /\ report = NoReport
    /\ run_all_exc = "none" /\ exit_status = -1

NextClassify == RunTestReturn \/ RunTestRaise

SpecClassify == InitClassify /\ [][NextClassify]_vars

\* ---- print_report on any sequence of results ----
\* longest results sequence handed to print_report
MaxResults == 4

Statuses == {"PASS", "FAIL", "SKIP"}

ResultWith(i, st) ==
    IF st = "PASS" THEN TestResult(Strategies[i].name, st, OkText \o Ellipsis, <<>>)
    ELSE TestResult(Strategies[i].name, st, <<>>, BoomText)

\* run_all about to call print_report
InitReport ==
    /\ ConfigInit
    /\ \E n \in 0..MaxResults : \E sts \in [1..n -> Statuses] :
         results = [i \in 1..n |-> ResultWith(i, sts[i])]
    /\ pc = "report"
    /\ idx = NumStrategies /\ pending = NoCall
    /\ invoked = <<>> /\ outcomes = <<>>
    /\ env = [DATABASE_URL |-> TRUE, OPENAI_API_KEY |-> TRUE]
    /\ db_initialized = TRUE /\ init_calls = 1 /\ init_result = "returned"
    /\ close_calls = 1 /\ report = NoReport
    /\ run_all_exc = "none" /\ exit_status = -1

NextReport == PrintReport \/ Main

SpecReport == InitReport /\ [][NextReport]_vars

(***************************************************************************)
(* Properties                                                              *)
(***************************************************************************)
AllPass(rs) == \A i \in 1..Len(rs) : rs[i].status = "PASS"
NumWith(rs, P(_)) == Cardinality({i \in 1..Len(rs) : P(rs[i])})
IsPass(r) == r.status = "PASS"
IsNotPass(r) == r.status # "PASS"
ErrorShaped(t) ==
    \/ StartsWith(t, ErrorPrefix)
    \/ StartsWith(t, SearchErrorPrefix)
    \/ Contains(t, EncounteredAnError)

\* C1: a strategy call that raises an exception yields a FAIL result carrying
\* the exception text and no output, the run goes on with the next call, and
\* whenever the report is reached all ten calls were made and have a result.
C1_Isolation ==
    /\ \A i \in 1..Len(results) :
         outcomes[i].kind = "raise" =>
             /\ results[i].status = "FAIL"
             /\ results[i].error = outcomes[i].msg
             /\ results[i].output = <<>>
    /\ Len(outcomes) = Len(results)
    /\ pc \in {"call", "await"} => idx = Len(results) + 1
    /\ (init_result = "returned" /\ pc \in {"teardown", "report", "toplevel", "exited"}
        /\ run_all_exc # "KeyboardInterrupt") =>
             Len(results) = NumStrategies /\ Len(invoked) = NumStrategies
    /\ (pc = "report" \/ report.printed) =>
             /\ Len(results) = NumStrategies
             /\ Len(invoked) = NumStrategies
             /\ (report.printed => report.total = NumStrategies)

\* C1 witness: the first and the last call raised, others did not, and the
\* report was printed.
C1_Witness ==
    /\ report.printed
    /\ outcomes[1].kind = "raise"
    /\ outcomes[2].kind = "return"
    /\ outcomes[NumStrategies].kind = "raise"

\* C2: once the database connection was acquired, close_db has been called
\* whenever run_all is left, whatever ended it.
C2_GuaranteedCleanup ==
    (pc \in {"toplevel", "exited"} /\ init_result = "returned") => close_calls >= 1

\* C3: the process ends with status 0 if all tests passed and with status 1
\* if a test failed or a fatal setup error or other critical error occurred
\* (an interrupted run is left open).
C3_ExitStatus ==
    (pc = "exited" /\ run_all_exc # "KeyboardInterrupt") =>
        IF /\ Len(results) = NumStrategies
           /\ AllPass(results)
           /\ run_all_exc \notin {"ValueError", "Exception"}
        THEN exit_status = 0
        ELSE exit_status = 1

C5_FatalSetup ==
    /\ (~env.DATABASE_URL \/ ~env.OPENAI_API_KEY) =>
           /\ init_calls = 0
           /\ invoked = <<>> /\ results = <<>>
           /\ ~report.printed
           /\ pc \in {"import", "setup", "toplevel", "exited"}
           /\ pc = "toplevel" => run_all_exc = "ValueError"
           /\ (pc = "exited" /\ exit_status = 0) => run_all_exc = "ValueError"
    /\ init_result = "raised" =>
           /\ invoked = <<>> /\ results = <<>>
           /\ ~report.printed
           /\ ~db_initialized
           /\ pc \in {"toplevel", "exited"}
           /\ run_all_exc = "Exception"

\* C5 witness: the process has ended after setup found DATABASE_URL missing.
C5_Witness == pc = "exited" /\ ~env.DATABASE_URL /\ env.OPENAI_API_KEY /\ exit_status = 0

\* C6: a load made while the file is absent, unreadable or not valid JSON
\* returns a mapping equal to the built-in defaults, whatever loads, saves,
\* removals and caller updates came before.
C6_LoadDefaults ==
    (last_call = "load" /\ (file.kind # "text" \/ file.text \in BrokenTexts)) =>
        Deref(held) = [chunk_size |-> PyInt(1000),
                       chunk_overlap |-> PyInt(200),
                       chunker_type |-> PyStr("semantic"),
                       embedding_model |-> PyStr("text-embedding-3-small"),
                       use_contextual_enrichment |-> PyBool(FALSE)]

\* C7: a load with no write to the file since the last completed save(c)
\* returns a mapping equal to c.
C7_RoundTrip ==
    (last_call = "load" /\ last_saved.valid) =>
        held.ref = "own" /\ held.obj = last_saved.config

\* C7 witness: a load returned a saved mapping that differs from the defaults
\* in an int, a str and a bool.
C7_Witness ==
    /\ last_call = "load" /\ last_saved.valid
    /\ Deref(held).chunk_size = PyInt(512)
    /\ Deref(held).chunk_overlap = PyInt(0)
    /\ Deref(held).chunker_type = PyStr("simple")
    /\ Deref(held).use_contextual_enrichment = PyBool(TRUE)
    /\ DEFAULT_CONFIG # DefaultConfigLiteral

InOrder ==
    /\ Len(results) <= NumStrategies
    /\ \A i \in 1..Len(results) : results[i].name = Strategies[i].name
    /\ \A i \in 1..Len(invoked) :
         invoked[i] = [func |-> Strategies[i].func, arg |-> Strategies[i].arg]
    /\ Len(invoked) \in {Len(results), Len(results) + 1}
    /\ Len(invoked) = Len(results) + 1 =>
         (pc = "await" \/ run_all_exc = "KeyboardInterrupt")
    /\ pc = "await" => Len(invoked) = Len(results) + 1

OneAtATime ==
    /\ invoked' # invoked =>
         /\ Len(invoked) = Len(results)
         /\ Len(invoked') = Len(invoked) + 1
         /\ SubSeq(invoked', 1, Len(invoked)) = invoked
         /\ results' = results
    /\ results' # results =>
         /\ Len(results') = Len(results) + 1
         /\ SubSeq(results', 1, Len(results)) = results
         /\ Len(invoked) = Len(results')
         /\ invoked' = invoked

C9_ResourceLifecycle ==
    /\ init_calls <= 1
    /\ invoked # <<>> => (init_calls = 1 /\ init_result = "returned")
    /\ db_initialized <=> (init_result = "returned")
    /\ close_calls <= 1
    /\ close_calls > 0 => (db_initialized /\ Len(results) = NumStrategies)
    /\ (pc = "report" \/ report.printed) => close_calls = 1
    /\ (pc \in {"toplevel", "exited"} /\ Len(results) = NumStrategies) =>
           close_calls = 1

\* C9 witness: the process ended with ten results, some failed, the
\* connection closed once and the report printed.
C9_Witness ==
    /\ pc = "exited" /\ report.printed /\ close_calls = 1
    /\ ~AllPass(results) /\ results[1].status = "PASS"

\* C10: print_report prints passed = number of PASS results, failed = number
\* of all others, passed + failed = total, and ends with SystemExit(1)
\* exactly when some result is not PASS.
C10_ReportTotals ==
    report.printed =>
        /\ report.passed = NumWith(results, IsPass)
        /\ report.failed = NumWith(results, IsNotPass)
        /\ report.total = Len(results)
        /\ report.passed + report.failed = report.total
        /\ (run_all_exc = "SystemExit") <=> ~AllPass(results)
        /\ AllPass(results) => run_all_exc = "none"
        /\ pc = "exited" => exit_status = (IF AllPass(results) THEN 0 ELSE 1)

\* C10 witness: a report over results of which one is SKIP and none is FAIL
\* ended the process with status 1.
C10_Witness ==
    /\ pc = "exited" /\ report.printed /\ exit_status = 1
    /\ \E i \in 1..Len(results) : results[i].status = "SKIP"
    /\ \A i \in 1..Len(results) : results[i].status # "FAIL"

====
